---- MODULE Spec2Model ----
(***************************************************************************)
(* Model of rhodium/plot.py: the frame builder (to_dataframe), the channel *)
(* resolution, defaults and size normalisation of scatter2d / scatter3d,   *)
(* and the legend construction of kdeplot.                                 *)
(*                                                                         *)
(* A call is drawn in Init (the variable call holds the caller's           *)
(* arguments, never changed afterwards); one action per function runs the  *)
(* whole function body and leaves the function's local variables in frame  *)
(* (as they are at the return, or at the raise when an exception leaves    *)
(* the function).  The plotting backend is an opaque sink: frame records   *)
(* what was handed to it.                                                  *)
(***************************************************************************)
EXTENDS Integers, Sequences, FiniteSets, TLC

VARIABLES call, pc, frame

vars == <<call, pc, frame>>

(***************************************************************************)
(* Bounds of the model.                                                    *)
(***************************************************************************)
MaxKeys == 3        \* names a model may declare / a caller may pass
MaxRecords == 3     \* records in data, entries of a literal array
MaxVal == 2         \* values of the size column lie in 0..MaxVal
MaxExpr == 3        \* expressions in kdeplot's expr list
MaxCmap == 2        \* colour maps in kdeplot's cmap list

KeyNames == <<"a", "b", "c", "d", "e", "f", "g", "h">>
AllKeys == {KeyNames[i] : i \in 1..MaxKeys}
Prefix(n) == {KeyNames[i] : i \in 1..n}
KeyIndex(k) == CHOOSE i \in 1..Len(KeyNames) : KeyNames[i] = k

Range(seq) == {seq[i] : i \in 1..Len(seq)}
SeqsUpTo(S, n) == UNION {[1..m -> S] : m \in 0..n}
Min(S) == CHOOSE v \in S : \A w \in S : v <= w
Max(S) == CHOOSE v \in S : \A w \in S : v >= w

(***************************************************************************)
(* Python values.  None is the label of a channel without a column name.   *)
(* A channel value is None, a str (a column name), a pandas Series (a      *)
(* column of the frame), an array literal or a scalar.  The numbers of a   *)
(* Series or array are the rationals arr[i] / den; den = 0 is what the     *)
(* float division by zero leaves: nan (0/0) or inf (v/0), no exception.    *)
(***************************************************************************)
None == "None"
NoneVal == [tag |-> "None", col |-> None, arr |-> <<>>, den |-> 1]
Str(name) == [tag |-> "str", col |-> name, arr |-> <<>>, den |-> 1]
Series(name, a) == [tag |-> "Series", col |-> name, arr |-> a, den |-> 1]
NdArray(a) == [tag |-> "ndarray", col |-> None, arr |-> a, den |-> 1]
Scalar(v) == [tag |-> "scalar", col |-> None, arr |-> <<v>>, den |-> 1]

isinstance_str(v) == v.tag = "str"
IsNone(v) == v.tag = "None"

Chan == {"x", "y", "z", "c", "s"}
Channels3d == <<"x", "y", "z", "c", "s">>
\* the colour and size branches of the elif chain exchanged
Channels2d_swapped == <<"x", "y", "s", "c">>
Channels2d == <<"x", "y", "c", "s">>

DefaultZ == 0
DefaultColor == "b"
DefaultSize == 20
SRangeLo == 10
SRangeHi == 50

(***************************************************************************)
(* to_dataframe: one column per key, built record by record; d[key] on a   *)
(* record without the key raises KeyError.  keys = None selects            *)
(* model.responses.keys().                                                 *)
(***************************************************************************)
NoKeys == [none |-> TRUE, keys |-> {}]
Keys(S) == [none |-> FALSE, keys |-> S]

to_dataframe_keys(responses, keys) == IF keys.none THEN responses ELSE keys.keys

to_dataframe_raises(responses, data, keys) ==
    \E k \in to_dataframe_keys(responses, keys) :
        \E i \in 1..Len(data) : k \notin DOMAIN data[i]

\* the columns built from the records in reverse
to_dataframe_reversed(responses, data, keys) ==
    [key \in to_dataframe_keys(responses, keys) |->
        [i \in 1..Len(data) |-> data[Len(data) + 1 - i][key]]]

to_dataframe(responses, data, keys) ==
    [key \in to_dataframe_keys(responses, keys) |->
        [i \in 1..Len(data) |-> data[i][key]]]

(***************************************************************************)
(* df[label]: the column, or KeyError when the frame has no such column.   *)
(***************************************************************************)
\* a lookup that never fails
getitem_raises_never(df, label) == FALSE

getitem_raises(df, label) == label \notin DOMAIN df

getitem(df, label) ==
    IF label \in DOMAIN df THEN Series(label, df[label]) ELSE NoneVal

Raise(f, type, where) == [f EXCEPT !.exc = type, !.at = where]

(***************************************************************************)
(* The isinstance blocks: a str argument becomes the channel's label and   *)
(* the channel's value becomes the column; any other argument keeps its    *)
(* value and gets the label None.                                          *)
(***************************************************************************)
RECURSIVE LabelArgs(_, _)
LabelArgs(f, chans) ==
    IF chans = <<>> THEN f
    ELSE LET ch == Head(chans)
             v == f.val[ch]
         IN IF isinstance_str(v)
            THEN IF getitem_raises(f.df, v.col)
                 THEN Raise([f EXCEPT !.label[ch] = v.col], "KeyError", "df[label]")
                 ELSE LabelArgs([f EXCEPT !.label[ch] = v.col,
                                          !.val[ch] = getitem(f.df, v.col)],
                                Tail(chans))
            ELSE LabelArgs([f EXCEPT !.label[ch] = None], Tail(chans))

(***************************************************************************)
(* used_keys = set([x_label, ...]); used_keys.remove(None) raises KeyError *)
(* when None is not an element.                                            *)
(***************************************************************************)
UsedKeysSet(label, chans) == {label[chans[i]] : i \in 1..Len(chans)}

remove_raises(used, elem) == elem \notin used

RemainingKeys(responses, used_keys) ==
    IF used_keys \subseteq responses THEN responses \ used_keys ELSE {}

(***************************************************************************)
(* Iterating a Python set of str yields its elements in an order the       *)
(* language does not fix (string hashing is randomised per process): every *)
(* order is possible.                                                      *)
(***************************************************************************)
IterationOrders(S) ==
    {o \in [1..Cardinality(S) -> S] : \A i, j \in DOMAIN o : i # j => o[i] # o[j]}

(***************************************************************************)
(* The if / elif chain of the for loop: the first channel, in the order    *)
(* of the chain, whose value is None ("" when there is none).              *)
(***************************************************************************)
\* the chain without its "is None" tests: the first branch always taken
FirstUnset_untested(val, chans) == chans[1]

FirstUnset(val, chans) ==
    LET idx == {i \in 1..Len(chans) : IsNone(val[chans[i]])}
    IN IF idx = {} THEN "" ELSE chans[Min(idx)]

RECURSIVE AutoFill(_, _, _)
AutoFill(f, chans, order) ==
    IF order = <<>> THEN f
    ELSE LET key == Head(order)
             ch == FirstUnset(f.val, chans)
         IN IF ch = "" THEN AutoFill(f, chans, Tail(order))
            ELSE AutoFill([f EXCEPT !.label[ch] = key,
                                    !.val[ch] = getitem(f.df, key)],
                          chans, Tail(order))

(***************************************************************************)
(* Series arithmetic of the rescaling line, element by element on the      *)
(* rationals arr[i] / den.  The / of a pandas Series is true division; by  *)
(* 0 it gives nan or inf (den = 0) and raises nothing.                     *)
(***************************************************************************)
\* the subtraction of s_min left out
SeriesSub_dropped(s, k) == s

SeriesSub(s, k) == [s EXCEPT !.arr = [i \in DOMAIN s.arr |-> s.arr[i] - k * s.den]]
SeriesDiv(s, d) == [s EXCEPT !.den = s.den * d]
SeriesMul(k, s) == [s EXCEPT !.arr = [i \in DOMAIN s.arr |-> k * s.arr[i]]]
SeriesAdd(s, k) == [s EXCEPT !.arr = [i \in DOMAIN s.arr |-> s.arr[i] + k * s.den]]

Rescale(s, s_range, s_min, s_max) ==
    SeriesAdd(SeriesMul(s_range[2] - s_range[1],
                        SeriesDiv(SeriesSub(s, s_min), s_max - s_min)),
              s_range[1])

(***************************************************************************)
(* min(s) / max(s): TypeError on a scalar (not iterable), ValueError on an *)
(* empty sequence.                                                         *)
(***************************************************************************)
min_raises(s) == IF s.tag = "scalar" THEN "TypeError"
                 ELSE IF Len(s.arr) = 0 THEN "ValueError" ELSE ""

(***************************************************************************)
(* The defaults: z (3-D only), colour, size; a size that is not None is    *)
(* rescaled into s_range.                                                  *)
(***************************************************************************)
DefaultZStep(f, chans) ==
    IF "z" \in Range(chans) /\ IsNone(f.val["z"])
    THEN [f EXCEPT !.val["z"] = Scalar(DefaultZ)]
    ELSE f

\* the colour default without show_colorbar = False
DefaultColorStep_keepsbar(f) ==
    IF IsNone(f.val["c"])
    THEN [f EXCEPT !.val["c"] = Str(DefaultColor)]
    ELSE f

DefaultColorStep(f) ==
    IF IsNone(f.val["c"])
    THEN [f EXCEPT !.val["c"] = Str(DefaultColor), !.show_colorbar = FALSE]
    ELSE f

SizeStep(f, s_range) ==
    LET s == f.val["s"]
    IN IF IsNone(s)
       THEN [f EXCEPT !.val["s"] = Scalar(DefaultSize), !.show_legend = FALSE]
       ELSE IF min_raises(s) # ""
            THEN Raise(f, min_raises(s), "min(s)")
            ELSE LET lo == Min(Range(s.arr))
                     hi == Max(Range(s.arr))
                 IN [f EXCEPT !.s_min = <<lo>>, !.s_max = <<hi>>,
                              !.val["s"] = Rescale(s, s_range, lo, hi)]

(***************************************************************************)
(* The rendering calls: scatter gets the channel values; the colour bar is *)
(* labelled c_label; the size legend is labelled                           *)
(* s_label + " (" + str(s_min) + " - " + str(s_max) + ")", a TypeError     *)
(* when s_label is None.                                                   *)
(***************************************************************************)
RenderStep(f) ==
    LET f1 == [f EXCEPT !.scatter = <<f.val>>]
        f2 == IF f1.show_colorbar
              THEN [f1 EXCEPT !.colorbar = <<f1.label["c"]>>]
              ELSE f1
    IN IF f2.show_legend
       THEN IF f2.label["s"] = None
            THEN Raise(f2, "TypeError", "s_label + str")
            ELSE [f2 EXCEPT !.legend = <<[label |-> f2.label["s"],
                                          lo |-> f2.s_min[1],
                                          hi |-> f2.s_max[1]]>>]
       ELSE f2

(***************************************************************************)
(* The body of scatter2d / scatter3d, statement by statement; an exception *)
(* ends it.  order is the iteration order of remaining_keys.  Besides the  *)
(* locals the frame keeps: reached, the last point passed ("call",         *)
(* "remaining" once remaining_keys is computed, "resolved" once the for    *)
(* loop has ended, "scaled" once the defaults and the rescaling are done); *)
(* filled, the channel values as the for loop left them; exc / at, the     *)
(* exception raised and the expression that raised it.                     *)
(***************************************************************************)
ScatterFrame0(c) ==
    [df |-> <<>>, val |-> c.arg, label |-> [ch \in Chan |-> None],
     used_keys |-> {}, remaining_keys |-> {}, order |-> <<>>,
     show_colorbar |-> c.show_colorbar, show_legend |-> c.show_legend,
     s_min |-> <<>>, s_max |-> <<>>,
     filled |-> <<>>, scatter |-> <<>>, colorbar |-> <<>>, legend |-> <<>>,
     reached |-> "call", exc |-> "", at |-> ""]

BuildStep(f, c, chans) ==
    IF to_dataframe_raises(c.responses, c.data, NoKeys)
    THEN Raise(f, "KeyError", "to_dataframe")
    ELSE LabelArgs([f EXCEPT !.df = to_dataframe(c.responses, c.data, NoKeys)], chans)

UsedKeysStep(f, c, chans) ==
    LET used == UsedKeysSet(f.label, chans)
    IN IF remove_raises(used, None)
       THEN Raise([f EXCEPT !.used_keys = used, !.remaining_keys = c.responses],
                  "KeyError", "used_keys.remove(None)")
       ELSE [f EXCEPT !.used_keys = used \ {None},
                      !.remaining_keys = RemainingKeys(c.responses, used \ {None}),
                      !.reached = "remaining"]

ScatterResolved(c, chans) ==
    LET f1 == BuildStep(ScatterFrame0(c), c, chans)
    IN IF f1.exc # "" THEN f1 ELSE UsedKeysStep(f1, c, chans)

ScatterFinish(f, c, chans, order) ==
    LET f3 == LET g == AutoFill(f, chans, order)
              IN [g EXCEPT !.order = order, !.filled = <<g.val>>,
                           !.reached = "resolved"]
        f4 == DefaultColorStep(DefaultZStep(f3, chans))
        f5 == SizeStep(f4, c.s_range)
    IN IF f5.exc # "" THEN f5
       ELSE RenderStep([f5 EXCEPT !.reached = "scaled"])

ScatterBody(c, chans) ==
    LET f2 == ScatterResolved(c, chans)
    IN IF f2.exc # ""
       THEN frame' = f2
       ELSE \E order \in IterationOrders(f2.remaining_keys) :
                frame' = ScatterFinish(f2, c, chans, order)

scatter3d ==
    /\ pc = "call"
    /\ call.fn = "scatter3d"
    /\ ScatterBody(call, Channels3d)
    /\ pc' = IF frame'.exc # "" THEN "raised" ELSE "returned"
    /\ UNCHANGED call

scatter2d ==
    /\ pc = "call"
    /\ call.fn = "scatter2d"
    /\ ScatterBody(call, Channels2d)
    /\ pc' = IF frame'.exc # "" THEN "raised" ELSE "returned"
    /\ UNCHANGED call

(***************************************************************************)
(* Calls of scatter2d / scatter3d.                                         *)
(***************************************************************************)
ExampleData(responses) ==
    [i \in 1..MaxRecords |-> [k \in responses |-> i * KeyIndex(k)]]

LitArray == NdArray([i \in 1..MaxRecords |-> i])

ChanArgs == {NoneVal, LitArray} \cup {Str(k) : k \in AllKeys}
SizeArgs == ChanArgs \cup {Scalar(DefaultSize)}

ArgsOf(fn) ==
    {a \in [Chan -> SizeArgs] :
        /\ \A ch \in Chan \ {"s"} : a[ch] \in ChanArgs
        /\ fn = "scatter2d" => a["z"] = NoneVal}

\* Every combination of channel arguments over every declared key set, on
\* the example data with the default s_range.
InitChannels ==
    /\ pc = "call"
    /\ \E fn \in {"scatter2d", "scatter3d"}, n \in 0..MaxKeys,
          sc \in BOOLEAN, sl \in BOOLEAN :
         \E a \in ArgsOf(fn) :
            call = [fn |-> fn, responses |-> Prefix(n), data |-> ExampleData(Prefix(n)),
                    arg |-> a, s_range |-> <<SRangeLo, SRangeHi>>,
                    show_colorbar |-> sc, show_legend |-> sl]
    /\ frame = ScatterFrame0(call)

NextScatter == scatter2d \/ scatter3d

SpecScatter == InitChannels /\ [][NextScatter]_vars

(***************************************************************************)
(* Calls that exercise the size normalisation: x and y are array literals, *)
(* the size channel is the column "a" of the data or an array literal, and *)
(* the numbers, the target range and the flags vary.                       *)
(***************************************************************************)
SizeArrays == SeqsUpTo(0..MaxVal, MaxRecords)

ColumnData(k, a) == [i \in 1..Len(a) |-> [key \in {k} |-> a[i]]]

SizeCalls ==
    LET k == KeyNames[1]
    IN {[data |-> ColumnData(k, a), s |-> Str(k)] : a \in SizeArrays}
       \cup {[data |-> ExampleData({k}), s |-> NdArray(a)] : a \in SizeArrays}
       \cup {[data |-> Append(ColumnData(k, a), [key \in {} |-> 0]), s |-> Str(k)] :
                 a \in SeqsUpTo(0..MaxVal, 1)}

InitSize ==
    /\ pc = "call"
    /\ \E fn \in {"scatter2d", "scatter3d"}, sc \in BOOLEAN, sl \in BOOLEAN,
          lo \in {SRangeLo, SRangeHi}, hi \in {SRangeLo, SRangeHi} :
         \E d \in SizeCalls :
            call = [fn |-> fn, responses |-> {KeyNames[1]}, data |-> d.data,
                    arg |-> [ch \in Chan |->
                               IF ch \in {"x", "y"} THEN LitArray
                               ELSE IF ch = "s" THEN d.s ELSE NoneVal],
                    s_range |-> <<lo, hi>>,
                    show_colorbar |-> sc, show_legend |-> sl]
    /\ frame = ScatterFrame0(call)

SpecSize == InitSize /\ [][NextScatter]_vars

(***************************************************************************)
(* Calls of to_dataframe: records may lack keys; keys is None or a         *)
(* collection of names.                                                    *)
(***************************************************************************)
FrameKeys == 2       \* names in the records of a to_dataframe call
FrameRecords == 2    \* records of a to_dataframe call

FrameNames == Prefix(FrameKeys)
FrameRows == UNION {[S -> {0, 1}] : S \in SUBSET FrameNames}

FrameFrame0 == [df |-> <<>>, exc |-> "", at |-> ""]

InitFrame ==
    /\ pc = "call"
    /\ \E data \in SeqsUpTo(FrameRows, FrameRecords) :
         \/ \E n \in 0..FrameKeys :
               call = [fn |-> "to_dataframe", responses |-> Prefix(n),
                       data |-> data, keys |-> NoKeys]
         \/ \E S \in SUBSET FrameNames :
               call = [fn |-> "to_dataframe", responses |-> FrameNames,
                       data |-> data, keys |-> Keys(S)]
    /\ frame = FrameFrame0

call_to_dataframe ==
    /\ pc = "call"
    /\ call.fn = "to_dataframe"
    /\ IF to_dataframe_raises(call.responses, call.data, call.keys)
       THEN /\ frame' = Raise(frame, "KeyError", "d[key]")
            /\ pc' = "raised"
       ELSE /\ frame' = [frame EXCEPT
                            !.df = to_dataframe(call.responses, call.data, call.keys)]
            /\ pc' = "returned"
    /\ UNCHANGED call

NextFrame == call_to_dataframe

SpecFrame == InitFrame /\ [][NextFrame]_vars

(***************************************************************************)
(* kdeplot.  A proxy patch takes its face colour from                      *)
(* sns.color_palette(cmap)[-2]; ax.legend(handles, labels) pairs the j-th  *)
(* handle with the j-th label.  The density estimate and df.query belong   *)
(* to the backend: frame.drawn records, in drawing order, which expression *)
(* was drawn with which colour map.                                        *)
(***************************************************************************)
DefaultCmap == <<"Reds", "Blues", "Oranges", "Greens", "Greys">>
ExprNames == <<"a > 0", "a > 1", "a > 2", "a > 3", "a > 4", "a > 5">>

NoExpr == [kind |-> "None", items |-> <<>>]
StrExpr(e) == [kind |-> "str", items |-> <<e>>]
ListExpr(es) == [kind |-> "list", items |-> es]

color_palette(name, index) == [palette |-> name, index |-> index]
Circle(fc) == [patch |-> "Circle", fc |-> fc]

\* cmap[i] with Python's 0-based index i
CmapAt(cmap, i) == cmap[i + 1]

KdeFrame0(c) ==
    [df |-> <<>>, expr |-> c.expr, proxies |-> <<>>, drawn |-> <<>>,
     legend |-> <<>>, exc |-> "", at |-> ""]

\* the body of the for loop for the pair (i, e), i 0-based
KdeLoopBody(f, cmap, i, e) ==
    IF Len(cmap) = 0
    THEN Raise(f, "ZeroDivisionError", "i % len(cmap)")
    ELSE [f EXCEPT
            !.drawn = Append(f.drawn, [expr |-> e, cmap |-> CmapAt(cmap, i % Len(cmap))]),
            !.proxies = Append(f.proxies,
                               Circle(color_palette(CmapAt(cmap, i % Len(cmap)), -2)))]

\* for i, e in reversed(list(enumerate(expr))): the pairs n-1 .. 0
RECURSIVE KdeLoop(_, _, _, _)
KdeLoop(f, cmap, items, n) ==
    IF n = 0 \/ f.exc # "" THEN f
    ELSE KdeLoop(KdeLoopBody(f, cmap, n - 1, items[n]), cmap, items, n - 1)

KdeBody(f, c) ==
    IF c.expr.kind = "None"
    THEN IF Len(c.cmap) = 0
         THEN Raise(f, "IndexError", "cmap[0]")
         ELSE [f EXCEPT
                 !.drawn = <<[expr |-> None, cmap |-> CmapAt(c.cmap, 0)]>>,
                 !.legend = <<[handles |-> <<Circle(color_palette(CmapAt(c.cmap, 0), -2))>>,
                               labels |-> <<"Density">>]>>]
    ELSE LET expr == ListExpr(c.expr.items)
             g == KdeLoop([f EXCEPT !.expr = expr], c.cmap, expr.items, Len(expr.items))
         IN IF g.exc # "" THEN g
            ELSE [g EXCEPT !.legend = <<[handles |-> g.proxies, labels |-> expr.items]>>]

kdeplot ==
    /\ pc = "call"
    /\ call.fn = "kdeplot"
    /\ frame' = IF to_dataframe_raises(call.responses, call.data, NoKeys)
                THEN Raise(frame, "KeyError", "to_dataframe")
                ELSE KdeBody([frame EXCEPT
                                !.df = to_dataframe(call.responses, call.data, NoKeys)],
                             call)
    /\ pc' = IF frame'.exc # "" THEN "raised" ELSE "returned"
    /\ UNCHANGED call

KdeExprs ==
    {NoExpr} \cup {StrExpr(ExprNames[i]) : i \in 1..MaxExpr}
             \cup {ListExpr(es) : es \in SeqsUpTo({ExprNames[i] : i \in 1..MaxExpr}, MaxExpr)}

KdeCmaps ==
    {DefaultCmap} \cup SeqsUpTo({DefaultCmap[i] : i \in 1..MaxCmap}, MaxCmap)

InitKde ==
    /\ pc = "call"
    /\ \E expr \in KdeExprs, cmap \in KdeCmaps :
         call = [fn |-> "kdeplot", responses |-> {KeyNames[1]},
                 data |-> ExampleData({KeyNames[1]}),
                 x |-> KeyNames[1], y |-> KeyNames[1], expr |-> expr, cmap |-> cmap]
    /\ frame = KdeFrame0(call)

NextKde == kdeplot

SpecKde == InitKde /\ [][NextKde]_vars

(***************************************************************************)
(* Vocabulary of the properties.  PriorityOrder spells out the channel     *)
(* order the specification states (x, y, z in 3-D, colour, size).          *)
(***************************************************************************)
IsScatter == call.fn \in {"scatter2d", "scatter3d"}
PriorityOrder ==
    IF call.fn = "scatter3d" THEN <<"x", "y", "z", "c", "s">> ELSE <<"x", "y", "c", "s">>
ChanSet == Range(PriorityOrder)
Supplied(ch) == call.arg[ch].tag # "None"
SuppliedName(ch) == call.arg[ch].tag = "str"
SuppliedNames == {call.arg[ch].col : ch \in {c \in ChanSet : SuppliedName(c)}}
UndeclaredArg == \E ch \in ChanSet : SuppliedName(ch) /\ call.arg[ch].col \notin call.responses
CallerColumn(k) == [i \in 1..Len(call.data) |-> call.data[i][k]]
ColumnValue(k) == [tag |-> "Series", col |-> k, arr |-> CallerColumn(k), den |-> 1]
LoopEnded == IsScatter /\ frame.reached \in {"resolved", "scaled"}
AutoFilled == {ch \in ChanSet : ~Supplied(ch) /\ frame.label[ch] # None}
LeftUnset(ch) == ~Supplied(ch)
UnsetChannels == SelectSeq(PriorityOrder, LeftUnset)

\* C1: after channel resolution no declared column is assigned to two
\* channels by auto-fill, every remaining declared key (declared and not named
\* by the caller) is consumed by at most one channel, and every channel the
\* caller supplied, as a column name or as a literal, holds the caller's value.
C1_NoDoubleNoOverride ==
    LoopEnded =>
        /\ \A c1 \in AutoFilled : \A c2 \in AutoFilled :
              c1 # c2 => frame.label[c1] # frame.label[c2]
        /\ \A ch \in AutoFilled :
              /\ frame.label[ch] \in call.responses \ SuppliedNames
              /\ frame.filled[1][ch] = ColumnValue(frame.label[ch])
        /\ \A k \in call.responses \ SuppliedNames :
              Cardinality({ch \in ChanSet : frame.label[ch] = k}) <= 1
        /\ \A ch \in ChanSet :
              Supplied(ch) =>
                 IF SuppliedName(ch)
                 THEN /\ frame.label[ch] = call.arg[ch].col
                      /\ frame.filled[1][ch] = ColumnValue(call.arg[ch].col)
                 ELSE /\ frame.label[ch] = None
                      /\ frame.filled[1][ch] = call.arg[ch]

C1_Witness ==
    /\ LoopEnded
    /\ SuppliedName("x")
    /\ call.arg["y"].tag = "ndarray"
    /\ Cardinality(AutoFilled) >= 2

\* C2: the used-keys / remaining-keys computation raises no error of its
\* own: a call that fails before the remaining keys are computed fails with
\* the Frame lookup error of a column name that is not declared.
C2_OnlyLookupErrors ==
    (IsScatter /\ pc = "raised" /\ frame.reached = "call") =>
        /\ frame.exc = "KeyError"
        /\ frame.at = "df[label]"
        /\ UndeclaredArg

\* C3 as stated: with a column-name argument that is not declared, the
\* remaining-key set is empty and every channel the caller left unset ends at
\* its default.
EndsAtDefault(ch) ==
    CASE ch = "z" -> frame.val[ch] = Scalar(DefaultZ)
      [] ch = "c" -> frame.val[ch] = Str(DefaultColor) /\ ~frame.show_colorbar
      [] ch = "s" -> frame.val[ch] = Scalar(DefaultSize) /\ ~frame.show_legend
      [] OTHER -> IsNone(frame.val[ch])

C3_Original ==
    (IsScatter /\ pc # "call" /\ UndeclaredArg) =>
        /\ frame.reached = "scaled"
        /\ frame.remaining_keys = {}
        /\ \A ch \in ChanSet : ~Supplied(ch) => EndsAtDefault(ch)

\* C3 amended: with a column-name argument that is not declared, the call
\* fails with the key lookup error of the Frame lookup, before the remaining
\* keys are computed: no channel is auto-filled, no default is applied and
\* nothing is rendered.
C3_LookupFailsFirst ==
    (IsScatter /\ pc # "call" /\ UndeclaredArg) =>
        /\ pc = "raised"
        /\ frame.exc = "KeyError"
        /\ frame.at = "df[label]"
        /\ frame.reached = "call"
        /\ \A ch \in ChanSet :
              ~Supplied(ch) => frame.label[ch] = None /\ IsNone(frame.val[ch])
        /\ frame.scatter = <<>>

C3_Witness ==
    /\ IsScatter
    /\ pc = "raised"
    /\ UndeclaredArg
    /\ call.responses \ SuppliedNames # {}
    /\ \E ch \in ChanSet : ~Supplied(ch)

\* C4: a constant size column (its maximum equals its minimum) ends in an
\* explicit degenerate-range error and no rescaled size reaches the rendering
\* call.
C4_ConstantColumnRaises ==
    (IsScatter /\ pc # "call" /\ frame.s_min # <<>> /\ frame.s_min = frame.s_max) =>
        /\ pc = "raised"
        /\ frame.exc = "ZeroDivisionError"
        /\ frame.scatter = <<>>

\* C5: for a non-constant size column and a target range (lo, hi), lo <= hi,
\* the rescaled size handed to the rendering call maps the column's minimum to
\* exactly lo, its maximum to exactly hi, every value v to
\* (hi - lo) * (v - min) / (max - min) + lo, and preserves order; s_min and
\* s_max are the minimum and maximum before the rescaling, and they are the
\* ones in the legend label.  (Equalities of rationals, cross-multiplied.)
C5_Rescaled ==
    (IsScatter /\ frame.reached = "scaled" /\ frame.s_min # <<>>
               /\ frame.s_min # frame.s_max) =>
        LET orig == frame.filled[1]["s"].arr
            sc == frame.val["s"]
            lo == call.s_range[1]
            hi == call.s_range[2]
            mn == Min(Range(orig))
            mx == Max(Range(orig))
        IN /\ frame.s_min = <<mn>>
           /\ frame.s_max = <<mx>>
           /\ sc.den > 0
           /\ DOMAIN sc.arr = DOMAIN orig
           /\ \A i \in DOMAIN orig :
                 /\ sc.arr[i] * (mx - mn)
                       = ((hi - lo) * (orig[i] - mn) + lo * (mx - mn)) * sc.den
                 /\ orig[i] = mn => sc.arr[i] = lo * sc.den
                 /\ orig[i] = mx => sc.arr[i] = hi * sc.den
           /\ lo <= hi =>
                 \A i \in DOMAIN orig : \A j \in DOMAIN orig :
                    orig[i] <= orig[j] => sc.arr[i] <= sc.arr[j]
           /\ frame.scatter # <<>>
           /\ frame.scatter[1]["s"] = sc
           /\ frame.legend # <<>> =>
                 frame.legend[1].lo = mn /\ frame.legend[1].hi = mx

C5_Witness ==
    /\ IsScatter
    /\ pc = "returned"
    /\ frame.legend # <<>>
    /\ call.s_range[1] < call.s_range[2]
    /\ Cardinality(Range(frame.filled[1]["s"].arr)) >= 3

\* C6 as stated: for keys a, b, c and scatter2d with only x = "a", the
\* resolved channels are y = "b" and colour = "c", size is the default and the
\* size legend is hidden, for every iteration order of the remaining keys.
ExampleCall ==
    /\ call.fn = "scatter2d"
    /\ call.responses = {"a", "b", "c"}
    /\ call.arg["x"] = Str("a")
    /\ \A ch \in {"y", "z", "c", "s"} : IsNone(call.arg[ch])

C6_Original ==
    (ExampleCall /\ pc # "call") =>
        /\ pc = "returned"
        /\ frame.label["y"] = "b"
        /\ frame.label["c"] = "c"
        /\ frame.val["s"] = Scalar(DefaultSize)
        /\ ~frame.show_legend

\* C6 amended: auto-fill hands the remaining declared keys, in the order in
\* which the remaining-key set yields them, to the still-unset channels in
\* the priority order x, y, (z), colour, size: the i-th key yielded goes to the
\* i-th channel the caller left unset, and channels beyond the keys stay
\* unset.  In the example y and colour receive b and c in the iteration order
\* (y = "b", colour = "c" or y = "c", colour = "b"), size is the default and
\* the size legend is hidden.
C6_InIterationOrder ==
    /\ LoopEnded =>
          /\ Range(frame.order) = frame.remaining_keys
          /\ Len(frame.order) = Cardinality(frame.remaining_keys)
          /\ \A i \in 1..Len(UnsetChannels) :
                IF i <= Len(frame.order)
                THEN /\ frame.label[UnsetChannels[i]] = frame.order[i]
                     /\ frame.filled[1][UnsetChannels[i]] = ColumnValue(frame.order[i])
                ELSE /\ frame.label[UnsetChannels[i]] = None
                     /\ IsNone(frame.filled[1][UnsetChannels[i]])
    /\ (ExampleCall /\ pc # "call") =>
          /\ pc = "returned"
          /\ frame.label["x"] = "a"
          /\ frame.remaining_keys = {"b", "c"}
          /\ frame.label["y"] = frame.order[1]
          /\ frame.label["c"] = frame.order[2]
          /\ {frame.label["y"], frame.label["c"]} = {"b", "c"}
          /\ frame.label["s"] = None
          /\ frame.val["s"] = Scalar(DefaultSize)
          /\ ~frame.show_legend
          /\ frame.legend = <<>>

C6_Witness ==
    /\ ExampleCall
    /\ pc = "returned"
    /\ call.show_legend
    /\ frame.label["y"] = "c"
    /\ frame.label["c"] = "b"

\* C7: to_dataframe yields one column per requested key (default: the
\* model's declared keys), as long as the record sequence and with the i-th
\* record's value at position i; when a record lacks a requested key it fails
\* with a key lookup error and produces no Frame.
RequestedKeys == IF call.keys.none THEN call.responses ELSE call.keys.keys
RecordLacksKey ==
    \E i \in 1..Len(call.data) : \E k \in RequestedKeys : k \notin DOMAIN call.data[i]

C7_FrameColumns ==
    (call.fn = "to_dataframe" /\ pc # "call") =>
        IF RecordLacksKey
        THEN /\ pc = "raised"
             /\ frame.exc = "KeyError"
             /\ DOMAIN frame.df = {}
        ELSE /\ pc = "returned"
             /\ DOMAIN frame.df = RequestedKeys
             /\ \A k \in RequestedKeys :
                   /\ Len(frame.df[k]) = Len(call.data)
                   /\ \A i \in 1..Len(call.data) : frame.df[k][i] = call.data[i][k]

C7_Witness ==
    /\ call.fn = "to_dataframe"
    /\ pc = "returned"
    /\ Len(call.data) >= 2
    /\ \E k \in RequestedKeys : call.data[1][k] # call.data[2][k]

\* C8: every channel still unset after auto-fill gets its default and only
\* such channels do: z becomes 0 (3-D only), colour becomes the default colour
\* with show_colorbar forced to false, size becomes the marker size 20 with
\* show_legend forced to false; a supplied or auto-filled channel keeps its
\* value (the size column rescaled) and leaves the caller's flag unchanged.
StillUnset(ch) == IsNone(frame.filled[1][ch])

C8_Defaults ==
    (IsScatter /\ frame.reached = "scaled") =>
        /\ \A ch \in {"x", "y"} : frame.val[ch] = frame.filled[1][ch]
        /\ IF call.fn = "scatter3d" /\ StillUnset("z")
           THEN frame.val["z"] = Scalar(0)
           ELSE frame.val["z"] = frame.filled[1]["z"]
        /\ IF StillUnset("c")
           THEN frame.val["c"] = Str("b") /\ frame.show_colorbar = FALSE
           ELSE /\ frame.val["c"] = frame.filled[1]["c"]
                /\ frame.show_colorbar = call.show_colorbar
        /\ IF StillUnset("s")
           THEN frame.val["s"] = Scalar(20) /\ frame.show_legend = FALSE
           ELSE /\ frame.val["s"].tag = frame.filled[1]["s"].tag
                /\ frame.val["s"].col = frame.filled[1]["s"].col
                /\ frame.val["s"].tag \in {"Series", "ndarray"}
                /\ frame.show_legend = call.show_legend

C8_Witness ==
    /\ call.fn = "scatter3d"
    /\ frame.reached = "scaled"
    /\ call.show_colorbar /\ call.show_legend
    /\ StillUnset("z") /\ StillUnset("c") /\ StillUnset("s")
    /\ ~StillUnset("x") /\ Supplied("y")

\* C9: whenever the size-legend step is reached with show_legend true, the
\* size channel has a column-name label and s_min, s_max are defined.
C9_LegendLabelDefined ==
    (IsScatter /\ frame.scatter # <<>> /\ frame.show_legend) =>
        /\ frame.label["s"] # None
        /\ frame.s_min # <<>>
        /\ frame.s_max # <<>>

\* C10: in kdeplot with a list of expressions, the legend entry labelled
\* expr[i] is paired with the proxy patch coloured from cmap[i mod len(cmap)],
\* the colour map its density was drawn with.
C10_LegendPairsColour ==
    (call.fn = "kdeplot" /\ pc = "returned" /\ call.expr.kind # "None") =>
        LET lg == frame.legend[1]
        IN /\ Len(lg.handles) = Len(lg.labels)
           /\ lg.labels = call.expr.items
           /\ \A i \in 1..Len(lg.labels) :
                 /\ lg.handles[i].fc.palette
                       = call.cmap[((i - 1) % Len(call.cmap)) + 1]
                 /\ \E d \in Range(frame.drawn) :
                       d.expr = lg.labels[i] /\ d.cmap = lg.handles[i].fc.palette

====
